---- MODULE Spec2Model ----
(***************************************************************************)
(* A model of onnxslim/utils.py: the input synthesizer, the inference      *)
(* runner's serialisation choice, the model summarizer, the CSV exporter,  *)
(* the persistence helper, the result comparator and the convergence       *)
(* check.  Each utility is a call-and-return function; a specification     *)
(* below draws the arguments of one group of utilities from bounded sets   *)
(* and applies them.                                                        *)
(*                                                                          *)
(* Python values are modelled structurally:                                 *)
(*   - a str is a sequence of one-character strings, so that rsplit, split, *)
(*     endswith and int() are computed as Python computes them;             *)
(*   - a shape entry is [t |-> "int", i |-> n], [t |-> "str", s |-> name]   *)
(*     or [t |-> "None"];                                                   *)
(*   - a dict is a record [keys |-> insertion-ordered sequence,             *)
(*     val |-> function on the keys];                                       *)
(*   - a call's outcome is [status |-> "returned", ...] or                  *)
(*     [status |-> "raised", exc |-> ...].                                  *)
(***************************************************************************)
EXTENDS Integers, Sequences, FiniteSets, TLC

VARIABLES
    \* gen_onnxruntime_input_data
    graph_input,          \* model.graph.input: sequence of declared input tensors
    model_check_inputs,   \* the override strings, or <<>> for None / empty
    input_data_dict,      \* outcome of the call ("pending" before it)
    \* check_result
    raw_onnx_output, slimmed_onnx_output,
    warnings,             \* the logger.warning calls made, in order
    compared,             \* keys on which np.allclose was evaluated, in order
    check_status,
    \* save / onnxruntime_inference
    fs,                   \* the file system: path -> [exists, chunks]
    model,                \* the ModelProto handed to save / onnxruntime_inference
    save_call,            \* the last save call and what it did
    infer_call,           \* the last onnxruntime_inference call and what it did
    fs_calls,             \* number of save / onnxruntime_inference calls made
    \* summarize_model / dump_model_info_to_disk
    summ_model,           \* the ModelProto handed to summarize_model
    model_info,           \* outcome of summarize_model
    csvfs,                \* CSV files in the working directory
    dump_call,            \* the last dump_model_info_to_disk call
    ncalls,               \* number of dump_model_info_to_disk calls made
    \* check_point / is_converged
    opt_model,            \* the model the optimisation loop currently holds
    graph_ckpt,           \* the caller's checkpoint
    conv_call,            \* the last is_converged call and its return value
    iter                  \* number of is_converged calls made

vars == <<graph_input, model_check_inputs, input_data_dict,
          raw_onnx_output, slimmed_onnx_output, warnings, compared, check_status,
          fs, model, save_call, infer_call, fs_calls,
          summ_model, model_info, csvfs, dump_call, ncalls,
          opt_model, graph_ckpt, conv_call, iter>>

genVars == <<graph_input, model_check_inputs, input_data_dict>>
checkVars == <<raw_onnx_output, slimmed_onnx_output, warnings, compared, check_status>>
fsVars == <<fs, model, save_call, infer_call, fs_calls>>
summVars == <<summ_model, model_info>>
csvVars == <<csvfs, dump_call, ncalls>>
convVars == <<opt_model, graph_ckpt, conv_call, iter>>

-----------------------------------------------------------------------------
(* Generic helpers on sequences and dicts.                                  *)

Range(s) == {s[k] : k \in 1..Len(s)}

SeqsUpTo(S, n) == UNION {[1..k -> S] : k \in 0..n}

IsPrefix(s, t) == Len(s) <= Len(t) /\ SubSeq(t, 1, Len(s)) = s

RECURSIVE SumSeq(_)
SumSeq(s) == IF s = <<>> THEN 0 ELSE s[1] + SumSeq(Tail(s))

EmptyDict == [keys |-> <<>>, val |-> <<>>]

DictHas(d, k) == k \in Range(d.keys)

\* d[k] = v: a new key goes to the end, an existing key keeps its position.
DictSet(d, k, v) ==
    [keys |-> IF DictHas(d, k) THEN d.keys ELSE Append(d.keys, k),
     val  |-> [x \in Range(d.keys) \cup {k} |-> IF x = k THEN v ELSE d.val[x]]]

Pending == [status |-> "pending"]


-----------------------------------------------------------------------------
(* Python str operations, on sequences of one-character strings.            *)

\* Index of the last occurrence of c in s, 0 when there is none.
LastIndexOf(s, c) ==
    LET hits == {k \in 1..Len(s) : s[k] = c}
    IN  IF hits = {} THEN 0 ELSE CHOOSE k \in hits : \A j \in hits : j <= k

\* s.rsplit(c, 1)
RSplit1(s, c) ==
    LET k == LastIndexOf(s, c)
    IN  IF k = 0 THEN <<s>>
        ELSE <<SubSeq(s, 1, k - 1), SubSeq(s, k + 1, Len(s))>>

\* s.endswith(suffix)
EndsWith(s, suffix) ==
    /\ Len(suffix) <= Len(s)
    /\ SubSeq(s, Len(s) - Len(suffix) + 1, Len(s)) = suffix

\* s.split(c): always at least one field, an empty string yields <<"">>.
RECURSIVE Split(_, _)
Split(s, c) ==
    LET hits == {k \in 1..Len(s) : s[k] = c}
    IN  IF hits = {} THEN <<s>>
        ELSE LET k == CHOOSE h \in hits : \A j \in hits : h <= j
             IN  <<SubSeq(s, 1, k - 1)>> \o Split(SubSeq(s, k + 1, Len(s)), c)

Digits == {"0", "1", "2", "3", "4", "5", "6", "7", "8", "9"}

DigitVal(c) ==
    CASE c = "0" -> 0 [] c = "1" -> 1 [] c = "2" -> 2 [] c = "3" -> 3
      [] c = "4" -> 4 [] c = "5" -> 5 [] c = "6" -> 6 [] c = "7" -> 7
      [] c = "8" -> 8 [] c = "9" -> 9

RECURSIVE DecimalVal(_)
DecimalVal(s) ==
    IF s = <<>> THEN 0
    ELSE 10 * DecimalVal(SubSeq(s, 1, Len(s) - 1)) + DigitVal(s[Len(s)])

\* int(s) accepts an optional sign followed by at least one digit.
IntParses(s) ==
    LET body == IF s # <<>> /\ s[1] \in {"-", "+"} THEN Tail(s) ELSE s
    IN  body # <<>> /\ \A k \in 1..Len(body) : body[k] \in Digits

IntOf(s) ==
    IF s[1] = "-" THEN 0 - DecimalVal(Tail(s))
    ELSE IF s[1] = "+" THEN DecimalVal(Tail(s))
    ELSE DecimalVal(s)

-----------------------------------------------------------------------------
(* gen_onnxruntime_input_data                                               *)

PyInt(n) == [t |-> "int", i |-> n]
PyStr(s) == [t |-> "str", s |-> s]
PyNone == [t |-> "None"]

\* One entry of the recorded shape, from one dimension of the declared input.
DimEntry(dim) ==
    IF dim.has = "dim_param" THEN PyStr(dim.dim_param)
    ELSE IF dim.has = "dim_value" THEN PyInt(dim.dim_value)
    ELSE PyNone

\* onnx_dtype_to_numpy
onnx_dtype_to_numpy(elem_type) ==
    CASE elem_type = "FLOAT" -> "float32"
      [] elem_type = "INT64" -> "int64"
      [] elem_type = "INT32" -> "int32"

\* The first loop: input_info[name] = {"shape": shape, "dtype": dtype}.
RECURSIVE DeclaredInputInfo(_)
DeclaredInputInfo(inputs) ==
    IF inputs = <<>> THEN EmptyDict
    ELSE LET n    == Len(inputs)
             t    == inputs[n]
             rest == DeclaredInputInfo(SubSeq(inputs, 1, n - 1))
         IN  DictSet(rest, t.name,
                     [shape |-> [k \in 1..Len(t.dim) |-> DimEntry(t.dim[k])],
                      dtype |-> onnx_dtype_to_numpy(t.elem_type)])

\* The array files np.load can read; any other path raises.
NpyArrays == (<<"a", ".", "n", "p", "y">> :> [shape |-> <<2, 2>>, dtype |-> "float32", src |-> "load"])

NpySuffix == <<".", "n", "p", "y">>

LookupError(key, input_info) ==
    [type |-> "Exception", key |-> key, keys |-> input_info.keys]

\* info["shape"] = values_list on the dict info.
WithShape(info, values_list) ==
    [f \in DOMAIN info \cup {"shape"} |->
        IF f = "shape" THEN values_list ELSE info[f]]

ShapeOverride_Unchecked(input_info, key, values_list) ==
    [status |-> "ok",
     input_info |-> DictSet(input_info, key,
                      IF DictHas(input_info, key)
                      THEN WithShape(input_info.val[key], values_list)
                      ELSE [shape |-> values_list, dtype |-> "float32"])]

\* The shape-list branch: input_info[key]["shape"] = values_list, or the
\* lookup error when key is no declared input.
ShapeOverride(input_info, key, values_list) ==
    IF DictHas(input_info, key)
    THEN [status |-> "ok",
          input_info |-> DictSet(input_info, key,
                           WithShape(input_info.val[key], values_list))]
    ELSE [status |-> "raised", exc |-> LookupError(key, input_info)]

\* One iteration of the override loop; the result is the new input_info or
\* the exception raised.
ApplyOverride(input_info, model_check_input) ==
    LET parts == RSplit1(model_check_input, ":")
    IN  IF Len(parts) # 2
        THEN [status |-> "raised", exc |-> [type |-> "ValueError", at |-> "unpack"]]
        ELSE LET key   == parts[1]
                 value == parts[2]
             IN  IF EndsWith(value, NpySuffix)
                 THEN IF ~DictHas(input_info, key)
                      THEN [status |-> "raised", exc |-> LookupError(key, input_info)]
                      ELSE IF value \notin DOMAIN NpyArrays
                      THEN [status |-> "raised", exc |-> [type |-> "FileNotFoundError"]]
                      ELSE [status |-> "ok",
                            input_info |-> DictSet(input_info, key, [data |-> NpyArrays[value]])]
                 ELSE LET fields == Split(value, ",")
                      IN  IF \E k \in 1..Len(fields) : ~IntParses(fields[k])
                          THEN [status |-> "raised", exc |-> [type |-> "ValueError", at |-> "int"]]
                          ELSE ShapeOverride(input_info, key,
                                             [k \in 1..Len(fields) |-> PyInt(IntOf(fields[k]))])

RECURSIVE ApplyOverrides(_, _)
ApplyOverrides(input_info, overrides) ==
    IF overrides = <<>> THEN [status |-> "ok", input_info |-> input_info]
    ELSE LET r == ApplyOverride(input_info, overrides[1])
         IN  IF r.status = "raised" THEN r
             ELSE ApplyOverrides(r.input_info, Tail(overrides))

\* shape if (shape != -1 and not isinstance(shape, str)) else 1
ConcreteDim(shape) ==
    IF shape # PyInt(-1) /\ shape.t # "str" THEN shape ELSE PyInt(1)

\* shapes = [...]; shapes = shapes or [1]
ConcreteShapes(shape) ==
    LET shapes == [k \in 1..Len(shape) |-> ConcreteDim(shape[k])]
    IN  IF shapes = <<>> THEN <<PyInt(1)>> ELSE shapes

\* np.random.randint(10, size=shapes) / np.random.rand(*shapes): numpy raises
\* TypeError for an entry that is not an integer and ValueError for a
\* negative one.
RandomArray(shapes, dtype) ==
    IF \E k \in 1..Len(shapes) : shapes[k].t # "int"
    THEN [status |-> "raised", exc |-> [type |-> "TypeError"]]
    ELSE IF \E k \in 1..Len(shapes) : shapes[k].i < 0
    THEN [status |-> "raised", exc |-> [type |-> "ValueError", at |-> "numpy"]]
    ELSE [status |-> "ok",
          array  |-> [shape |-> [k \in 1..Len(shapes) |-> shapes[k].i],
                      dtype |-> dtype,
                      src   |-> IF dtype \in {"int32", "int64"} THEN "randint" ELSE "rand"]]

\* The last loop, over input_info.items() in insertion order.
RECURSIVE Synthesize(_, _, _)
Synthesize(input_info, names, input_data) ==
    IF names = <<>> THEN [status |-> "returned", data |-> input_data]
    ELSE LET name == names[1]
             info == input_info.val[name]
         IN  IF "data" \in DOMAIN info
             THEN Synthesize(input_info, Tail(names), DictSet(input_data, name, info.data))
             ELSE LET r == RandomArray(ConcreteShapes(info.shape), info.dtype)
                  IN  IF r.status = "raised" THEN [status |-> "raised", exc |-> r.exc]
                      ELSE Synthesize(input_info, Tail(names),
                                      DictSet(input_data, name, r.array))

gen_onnxruntime_input_data(inputs, overrides) ==
    LET r == ApplyOverrides(DeclaredInputInfo(inputs), overrides)
    IN  IF r.status = "raised" THEN [status |-> "raised", exc |-> r.exc]
        ELSE Synthesize(r.input_info, r.input_info.keys, EmptyDict)

(* Bounded arguments. *)
MaxRank == 2
MaxOverrides == 2

DimSet == {[has |-> "dim_param", dim_param |-> "N"],
           [has |-> "dim_value", dim_value |-> -1],
           [has |-> "dim_value", dim_value |-> 3],
           [has |-> "none"]}

NameX == <<"x">>
NameM == <<"m", ":", "0">>

TensorM == [name |-> NameM, elem_type |-> "INT64",
            dim |-> <<[has |-> "dim_value", dim_value |-> 2]>>]

GraphInputs ==
    {<<>>} \cup
    UNION {{<<[name |-> NameX, elem_type |-> e, dim |-> d]>>,
            <<[name |-> NameX, elem_type |-> e, dim |-> d], TensorM>>} :
                e \in {"FLOAT", "INT64"}, d \in SeqsUpTo(DimSet, MaxRank)}

OverrideStrings ==
    {<<"x", ":", "1", ",", "2", ",", "3">>,
     <<"x", ":", "-", "1", ",", "3">>,
     <<"x", ":", "-", "2">>,
     <<"x", ":", "a", ".", "n", "p", "y">>,
     <<"z", ":", "1", "2">>,
     <<"z", ":", "a", ".", "n", "p", "y">>,
     <<"m", ":", "0", ":", "4">>,
     <<"x">>}

GenInit ==
    /\ graph_input \in GraphInputs
    /\ model_check_inputs \in SeqsUpTo(OverrideStrings, MaxOverrides)
    /\ input_data_dict = Pending

GenOnnxruntimeInputData ==
    /\ input_data_dict = Pending
    /\ input_data_dict' = gen_onnxruntime_input_data(graph_input, model_check_inputs)
    /\ UNCHANGED <<graph_input, model_check_inputs>>

-----------------------------------------------------------------------------
(* Claims about gen_onnxruntime_input_data.                                 *)

GenDone == input_data_dict.status # "pending"
GenReturned == input_data_dict.status = "returned"

DeclaredNames == [k \in 1..Len(graph_input) |-> graph_input[k].name]

\* The shape the specification promises for declared dimensions: symbolic,
\* unknown and -1 become 1, every other size is kept, an empty shape is <<1>>.
PromisedDim(dim) ==
    IF dim.has = "dim_value" /\ dim.dim_value # -1 THEN dim.dim_value ELSE 1

PromisedShape(dims) ==
    IF dims = <<>> THEN <<1>> ELSE [k \in 1..Len(dims) |-> PromisedDim(dims[k])]

\* C1: with no override, the call returns and every declared input gets an
\* array whose shape is its declared shape with each symbolic, unknown or -1
\* dimension replaced by 1 (and <<1>> for an empty shape).
C1_ConcreteShape ==
    (GenDone /\ model_check_inputs = <<>>) =>
        /\ GenReturned
        /\ \A k \in 1..Len(graph_input) :
              input_data_dict.data.val[graph_input[k].name].shape
                  = PromisedShape(graph_input[k].dim)

\* The parts of the k-th override string.
OvParts(k) == RSplit1(model_check_inputs[k], ":")
OvKey(k) == OvParts(k)[1]
OvValue(k) == OvParts(k)[2]
OvIsFile(k) == Len(OvParts(k)) = 2 /\ EndsWith(OvValue(k), NpySuffix)
OvIsShape(k) ==
    /\ Len(OvParts(k)) = 2
    /\ ~EndsWith(OvValue(k), NpySuffix)
    /\ \A f \in Range(Split(OvValue(k), ",")) : IntParses(f)
OvShape(k) ==
    LET fields == Split(OvValue(k), ",")
    IN  [j \in 1..Len(fields) |-> IntOf(fields[j])]
OvDeclared(k) == OvKey(k) \in Range(DeclaredNames)
\* The k-th override is applied without an error.
OvApplies(k) ==
    \/ OvIsShape(k) /\ OvDeclared(k)
    \/ OvIsFile(k) /\ OvDeclared(k) /\ OvValue(k) \in DOMAIN NpyArrays

\* An override, in either form, that names an undeclared input and is reached
\* makes the call fail with the error naming the key and listing the declared
\* input names; no mapping is returned.
C2_UnknownNameFails ==
    GenDone =>
        \A k \in 1..Len(model_check_inputs) :
            ( /\ OvIsFile(k) \/ OvIsShape(k)
              /\ ~OvDeclared(k)
              /\ \A j \in 1..(k - 1) : OvApplies(j) )
            => /\ input_data_dict.status = "raised"
               /\ input_data_dict.exc =
                     [type |-> "Exception", key |-> OvKey(k), keys |-> DeclaredNames]

\* C2 as stated: unknown names fail, and a shape override that is the only
\* override of a declared input gives the array exactly the listed shape.
C2_ExactShape ==
    /\ C2_UnknownNameFails
    /\ GenReturned =>
          \A k \in 1..Len(model_check_inputs) :
              ( /\ OvIsShape(k)
                /\ \A j \in 1..Len(model_check_inputs) : j # k => OvKey(j) # OvKey(k) )
              => input_data_dict.data.val[OvKey(k)].shape = OvShape(k)

MinusOneToOne(shape) == [j \in 1..Len(shape) |-> IF shape[j] = -1 THEN 1 ELSE shape[j]]

\* C2, amended: unknown names fail as above; when the call returns, an input
\* with no array-file override whose last shape override lists L gets an
\* array of shape L with every -1 replaced by 1.
C2_OverrideShape ==
    /\ C2_UnknownNameFails
    /\ GenReturned =>
          \A k \in 1..Len(model_check_inputs) :
              ( /\ OvIsShape(k)
                /\ \A j \in 1..Len(model_check_inputs) :
                      OvKey(j) = OvKey(k) => (OvIsShape(j) /\ j <= k) )
              => input_data_dict.data.val[OvKey(k)].shape = MinusOneToOne(OvShape(k))

C2_Witness ==
    /\ GenReturned
    /\ \E k \in 1..Len(model_check_inputs) :
          /\ OvIsShape(k) /\ OvKey(k) = NameX /\ -1 \in Range(OvShape(k))
          /\ \A j \in 1..Len(model_check_inputs) : OvKey(j) = OvKey(k) => j = k
          /\ input_data_dict.data.val[NameX].shape = <<1, 3>>

-----------------------------------------------------------------------------
(* check_result                                                             *)

\* Array elements are numbers in units of 1e-4, or NaN.
Num(v) == [t |-> "num", v |-> v]
NaN == [t |-> "nan"]

Abs(n) == IF n < 0 THEN 0 - n ELSE n

\* One element of np.allclose(a, b, rtol=1e-03, atol=1e-04, equal_nan=True):
\* |a - b| <= atol + rtol * |b|, scaled by 1000 in units of 1e-4; two NaNs
\* are equal, a NaN and a number are not close.
IsClose(a, b) ==
    IF a.t = "nan" \/ b.t = "nan" THEN a.t = "nan" /\ b.t = "nan"
    ELSE 1000 * Abs(a.v - b.v) <= 1000 + Abs(b.v)

AllClose(a, b) == \A k \in 1..Len(a) : IsClose(a[k], b[k])

KeySetsDiffer_Ordered(raw, slimmed) == raw.keys # slimmed.keys

\* set(raw_onnx_output.keys()) != set(slimmed_onnx_output.keys())
KeySetsDiffer(raw, slimmed) == Range(raw.keys) # Range(slimmed.keys)

KeyMismatchWarnings(raw, slimmed) ==
    <<[msg |-> "Model output mismatch after slimming."],
      [msg |-> "Raw model output keys", keys |-> raw.keys],
      [msg |-> "Slimmed model output keys", keys |-> slimmed.keys],
      [msg |-> "Please check the model carefully."]>>

ValueMismatchWarnings ==
    <<[msg |-> "Model output mismatch after slimming."],
      [msg |-> "Please check the model carefully."]>>

\* The loop over raw_onnx_output.keys(): stops at the first key whose arrays
\* are not close.  seen is the keys already compared.
RECURSIVE CompareKeys(_, _, _, _)
CompareKeys(raw, slimmed, keys, seen) ==
    IF keys = <<>> THEN [warnings |-> <<>>, compared |-> seen]
    ELSE IF ~AllClose(raw.val[keys[1]], slimmed.val[keys[1]])
    THEN [warnings |-> ValueMismatchWarnings, compared |-> Append(seen, keys[1])]
    ELSE CompareKeys(raw, slimmed, Tail(keys), Append(seen, keys[1]))

check_result(raw, slimmed) ==
    IF KeySetsDiffer(raw, slimmed)
    THEN [warnings |-> KeyMismatchWarnings(raw, slimmed), compared |-> <<>>]
    ELSE CompareKeys(raw, slimmed, raw.keys, <<>>)

(* Bounded arguments. *)
MaxOutputs == 2

OutputNames == {"a", "b", "c"}

OutputArrays == {<<NaN, Num(19990)>>, <<NaN, Num(20011)>>,
                 <<Num(0), Num(19990)>>, <<Num(1), Num(19990)>>}

OutputKeyOrders ==
    {ks \in SeqsUpTo(OutputNames, MaxOutputs) :
        \A i, j \in 1..Len(ks) : i # j => ks[i] # ks[j]}

OutputSets ==
    UNION {{[keys |-> ks, val |-> v] : v \in [Range(ks) -> OutputArrays]} :
              ks \in OutputKeyOrders}

CheckInit ==
    /\ raw_onnx_output \in OutputSets
    /\ slimmed_onnx_output \in OutputSets
    /\ warnings = <<>>
    /\ compared = <<>>
    /\ check_status = "pending"

CheckResult ==
    /\ check_status = "pending"
    /\ LET r == check_result(raw_onnx_output, slimmed_onnx_output)
       IN  /\ warnings' = warnings \o r.warnings
           /\ compared' = r.compared
    /\ check_status' = "returned"
    /\ UNCHANGED <<raw_onnx_output, slimmed_onnx_output>>

(* Claims about check_result. *)

SameKeySets == Range(raw_onnx_output.keys) = Range(slimmed_onnx_output.keys)

EveryKeyClose ==
    \A k \in Range(raw_onnx_output.keys) :
        AllClose(raw_onnx_output.val[k], slimmed_onnx_output.val[k])

\* C3 as stated: differing key sets give exactly one warning and no
\* per-key comparison; identical key sets with close arrays give no warning.
C3_OneWarning ==
    check_status = "returned" =>
        /\ ~SameKeySets => (Len(warnings) = 1 /\ compared = <<>>)
        /\ (SameKeySets /\ EveryKeyClose) => warnings = <<>>

\* C3, amended: differing key sets give one mismatch report made of exactly
\* four warning records (the mismatch notice, the raw key set, the slimmed
\* key set, the advice) and no per-key comparison; identical key sets with
\* close arrays give no warning.
C3_MismatchReport ==
    check_status = "returned" =>
        /\ ~SameKeySets =>
              /\ Len(warnings) = 4
              /\ warnings[2].keys = raw_onnx_output.keys
              /\ warnings[3].keys = slimmed_onnx_output.keys
              /\ compared = <<>>
        /\ (SameKeySets /\ EveryKeyClose) => warnings = <<>>

C3_Witness ==
    /\ check_status = "returned"
    /\ ~SameKeySets
    /\ raw_onnx_output.keys # <<>> /\ slimmed_onnx_output.keys # <<>>
    /\ Len(warnings) = 4

-----------------------------------------------------------------------------
(* save, model_save_as_external_data and onnxruntime_inference              *)
(*                                                                          *)
(* A path is the sequence of its components; a relative path is resolved    *)
(* against the working directory, so the keys of fs are paths as given.     *)
(* fs maps each existing file to its content, a sequence of chunks.         *)

\* checker.MAXIMUM_PROTOBUF
MAXIMUM_PROTOBUF == 2000000000

\* os.path.basename, os.path.dirname, os.path.join(dir, name)
Basename(path) == path[Len(path)]
Dirname(path) == SubSeq(path, 1, Len(path) - 1)
Join(dir, name) == Append(dir, name)

\* os.path.exists(p) / os.remove(p)
Exists(files, path) == path \in DOMAIN files
Remove(files, path) == [q \in DOMAIN files \ {path} |-> files[q]]
WriteFile(files, path, content) ==
    [q \in DOMAIN files \cup {path} |-> IF q = path THEN content ELSE files[q]]

\* onnx.save(model, path): the model, tensors inline, replaces the file.
OnnxSave(files, path) == WriteFile(files, path, <<"model">>)

\* onnx.save(model, path, save_as_external_data=True,
\* all_tensors_to_one_file=True, location=location): the tensor data is
\* appended to the file named location in the directory of path, which is
\* created when missing; the primary file is replaced.
OnnxSaveExternal(files, path, location) ==
    LET data == Join(Dirname(path), location)
        old  == IF Exists(files, data) THEN files[data] ELSE <<>>
    IN  WriteFile(WriteFile(files, data, Append(old, "tensors")),
                  path, <<"model-ext">>)

\* location = f"{os.path.basename(model_path)}.data", as the path that
\* os.path.exists and os.remove are given.
DataLocation(path) == <<Basename(path) \o ".data">>

\* The external-data write of save, model_save_as_external_data and
\* onnxruntime_inference: remove a file at location, then save.
SaveAsExternalData(files, path) ==
    LET location == DataLocation(path)
        cleared  == IF Exists(files, location) THEN Remove(files, location) ELSE files
    IN  [files   |-> OnnxSaveExternal(cleared, path, Basename(path) \o ".data"),
         removed |-> IF Exists(files, location) THEN {location} ELSE {}]

\* save: model.ByteSize() <= checker.MAXIMUM_PROTOBUF
WithinCeiling(size) == size <= MAXIMUM_PROTOBUF

\* checker.check_model: ValueError for a model above the ceiling, otherwise
\* the model is valid or a ValidationError is raised.
CheckModelOutcomes(size) ==
    IF size > MAXIMUM_PROTOBUF THEN {"ValueError"} ELSE {"ok", "ValidationError"}

\* save(model, model_path, model_check) with the given checker outcome.
save(files, m, model_path, model_check, checked) ==
    IF model_check /\ checked = "ValidationError"
    THEN [status |-> "raised", files |-> files, removed |-> {}, warnings |-> <<>>]
    ELSE LET w == IF model_check /\ checked = "ValueError"
                  THEN <<"Model too large and cannot be checked.">> ELSE <<>>
         IN  IF model_path = <<>>
             THEN [status |-> "returned", files |-> files, removed |-> {}, warnings |-> w]
             ELSE IF WithinCeiling(m.size)
             THEN [status |-> "returned", files |-> OnnxSave(files, model_path),
                   removed |-> {}, warnings |-> w]
             ELSE LET r == SaveAsExternalData(files, model_path)
                  IN  [status |-> "returned", files |-> r.files,
                       removed |-> r.removed, warnings |-> w]

\* onnxruntime_inference: model.ByteSize() >= onnx.checker.MAXIMUM_PROTOBUF
TakesTempFile(size) == size >= MAXIMUM_PROTOBUF

\* tempfile.TemporaryDirectory(): a fresh directory on every call.
TmpDir(n) == <<"/tmp", "tmp" \o ToString(n)>>

\* onnxruntime_inference up to the return: what InferenceSession is given,
\* the files written and the model returned.  onnx.load yields a new object.
\* n numbers the call.
onnxruntime_inference(files, m, n) ==
    IF TakesTempFile(m.size)
    THEN LET tmp_path == Join(TmpDir(n), "tmp.onnx")
             r        == SaveAsExternalData(files, tmp_path)
         IN  [onnx_model |-> [t |-> "str", path |-> tmp_path],
              files      |-> r.files,
              removed    |-> r.removed,
              model      |-> [id |-> m.id + 1, size |-> m.size]]
    ELSE [onnx_model |-> [t |-> "bytes"],
          files      |-> files,
          removed    |-> {},
          model      |-> m]

(* Bounded arguments. *)
MaxFsCalls == 2

ModelSizes == {0, MAXIMUM_PROTOBUF - 1, MAXIMUM_PROTOBUF, MAXIMUM_PROTOBUF + 1}

ModelPaths == {<<>>, <<"m.onnx">>, <<"out", "m.onnx">>}

StalePaths == {<<"m.onnx.data">>, <<"out", "m.onnx.data">>, <<"tmp.onnx.data">>,
               <<"out", "m.onnx">>}

FsInit ==
    /\ \E present \in SUBSET StalePaths : fs = [q \in present |-> <<"stale">>]
    /\ model \in [id : {0}, size : ModelSizes]
    /\ save_call = Pending
    /\ infer_call = Pending
    /\ fs_calls = 0

Save ==
    /\ fs_calls < MaxFsCalls
    /\ \E model_path \in ModelPaths, model_check \in BOOLEAN :
       \E checked \in CheckModelOutcomes(model.size) :
          LET r == save(fs, model, model_path, model_check, checked)
          IN  /\ fs' = r.files
              /\ save_call' = [status |-> r.status, model_path |-> model_path,
                               model_check |-> model_check, size |-> model.size,
                               before |-> fs, removed |-> r.removed,
                               warnings |-> r.warnings]
    /\ fs_calls' = fs_calls + 1
    /\ UNCHANGED <<model, infer_call>>

\* The temporary directory is deleted when its object is finalised, which
\* may or may not have happened when the caller looks.
OnnxruntimeInference ==
    /\ fs_calls < MaxFsCalls
    /\ LET r == onnxruntime_inference(fs, model, fs_calls)
       IN  /\ \E cleaned \in BOOLEAN :
                fs' = IF cleaned
                      THEN [q \in {p \in DOMAIN r.files : Dirname(p) # TmpDir(fs_calls)} |-> r.files[q]]
                      ELSE r.files
           /\ infer_call' = [status |-> "returned", size |-> model.size,
                             model_in |-> model, onnx_model |-> r.onnx_model,
                             model_out |-> r.model, removed |-> r.removed]
           /\ model' = r.model
    /\ fs_calls' = fs_calls + 1
    /\ UNCHANGED save_call

(* Claims about save and onnxruntime_inference. *)

\* The data file the specification promises: basename(model_path) + ".data"
\* next to the primary file.
PromisedDataFile(path) == Join(Dirname(path), Basename(path) \o ".data")

SaveWrote == save_call.status = "returned" /\ save_call.model_path # <<>>

\* Files that exist after the call and did not before it.
SaveCreated == DOMAIN fs \ DOMAIN save_call.before

\* C4: within the ceiling save writes the single file model_path and creates
\* no auxiliary file; above it the result is the primary file plus exactly
\* one data file basename(model_path) + ".data" next to it, and a file that
\* was at that data file's location before the call was removed before the
\* write (so the data file holds the new tensors only), for every model_path.
C4_SaveLayout ==
    SaveWrote =>
        LET path == save_call.model_path
            data == PromisedDataFile(path)
        IN  IF save_call.size <= MAXIMUM_PROTOBUF
            THEN /\ fs[path] = <<"model">>
                 /\ SaveCreated \subseteq {path}
            ELSE /\ Exists(fs, path) /\ Exists(fs, data)
                 /\ SaveCreated \subseteq {path, data}
                 /\ Exists(save_call.before, data) => data \in save_call.removed
                 /\ fs[data] = <<"tensors">>

\* C6: onnxruntime_inference takes the temporary-file path exactly when the
\* size strictly exceeds the ceiling; otherwise, a size equal to the ceiling
\* included, the model is serialized in memory and returned as passed in.
C6_TempFileIffExceeds ==
    infer_call.status = "returned" =>
        /\ infer_call.onnx_model.t = "str" <=> infer_call.size > MAXIMUM_PROTOBUF
        /\ infer_call.size <= MAXIMUM_PROTOBUF =>
              /\ infer_call.onnx_model.t = "bytes"
              /\ infer_call.model_out = infer_call.model_in

-----------------------------------------------------------------------------
(* summarize_model                                                          *)
(*                                                                          *)
(* A graph is the sequence of its nodes; a node is                          *)
(* [name, op_type, output, attribute]; an attribute is [type |-> t] and,    *)
(* for type "GRAPH", carries the nested graph in g.                         *)

\* onnx.mapping.TENSOR_TYPE_TO_NP_TYPE.get(elem_type, "Unknown")
TypeStr(elem_type) ==
    IF elem_type \in {"FLOAT", "INT64", "INT32"}
    THEN onnx_dtype_to_numpy(elem_type) ELSE "Unknown"

\* get_tensor_dtype_shape: (type_str, shape), shape None without a shape field.
get_tensor_dtype_shape(tensor) ==
    <<TypeStr(tensor.elem_type),
      IF tensor.has_shape
      THEN [t |-> "list", list |-> [k \in 1..Len(tensor.dim) |-> DimEntry(tensor.dim[k])]]
      ELSE PyNone>>

\* get_shape: name -> f"{type_str}: {tuple(shape)}", or f"{type_str}: None"
\* when the shape is None or empty.
RECURSIVE get_shape(_)
get_shape(tensors) ==
    IF tensors = <<>> THEN EmptyDict
    ELSE LET n  == Len(tensors)
             ts == get_tensor_dtype_shape(tensors[n])
         IN  DictSet(get_shape(SubSeq(tensors, 1, n - 1)), tensors[n].name,
                     IF ts[2] # PyNone /\ ts[2].list # <<>>
                     THEN <<ts[1], ": ", ts[2].list>>
                     ELSE <<ts[1], ": ", "None">>)

\* get_opset: the version of the first import of the default domain, else None.
RECURSIVE get_opset(_)
get_opset(opset_import) ==
    IF opset_import = <<>> THEN PyNone
    ELSE IF opset_import[1].domain \in {"", "ai.onnx"} THEN PyInt(opset_import[1].version)
    ELSE get_opset(Tail(opset_import))

\* value_info_dict = {value_info.name: value_info for ...}
RECURSIVE ValueInfoDict(_)
ValueInfoDict(value_info) ==
    IF value_info = <<>> THEN EmptyDict
    ELSE LET n == Len(value_info)
         IN  DictSet(ValueInfoDict(SubSeq(value_info, 1, n - 1)),
                     value_info[n].name, value_info[n])

\* op_type_counts[op_type] += 1 on a defaultdict(int)
Increment(counts, op_type) ==
    DictSet(counts, op_type,
            IF DictHas(counts, op_type) THEN counts.val[op_type] + 1 ELSE 1)

Unbound == [bound |-> FALSE]

\* for output in node.output: shapes = []; if output in value_info_dict: ...
\* shapes is the function's local variable: it is rebound to a new list on
\* every iteration and keeps its previous binding when there is none.
RECURSIVE OutputLoop(_, _, _)
OutputLoop(outputs, value_info_dict, shapes) ==
    IF outputs = <<>> THEN shapes
    ELSE LET output == outputs[1]
             fresh  == <<>>
             after  == IF DictHas(value_info_dict, output)
                       THEN Append(fresh, get_tensor_dtype_shape(value_info_dict.val[output]))
                       ELSE fresh
         IN  OutputLoop(Tail(outputs), value_info_dict, [bound |-> TRUE, list |-> after])

IsGraphAttr_Lowercase(attr) == attr.type = "graph"

\* attr.type in ATTR_TYPE_MAPPING and ATTR_TYPE_MAPPING[attr.type] == "GRAPH"
IsGraphAttr(attr) == attr.type = "GRAPH"

\* get_graph_node_info(graph), with the enclosing op_info and op_type_counts
\* in st.  VisitNodes runs the loop over graph.node from the given binding
\* of shapes; VisitAttrs runs the loop over node.attribute and then the rest
\* of the nodes.  A nested call starts with shapes unbound.
RECURSIVE VisitNodes(_, _, _, _)
RECURSIVE VisitAttrs(_, _, _, _, _)
VisitNodes(nodes, value_info_dict, shapes, st) ==
    IF nodes = <<>> THEN st
    ELSE LET node   == nodes[1]
             counts == Increment(st.op_type_counts, node.op_type)
             sh     == OutputLoop(node.output, value_info_dict, shapes)
         IN  IF ~sh.bound
             THEN [status |-> "raised", exc |-> [type |-> "UnboundLocalError"],
                   op_info |-> st.op_info, op_type_counts |-> counts]
             ELSE VisitAttrs(node.attribute, Tail(nodes), value_info_dict, sh,
                             [status |-> "ok",
                              op_info |-> DictSet(st.op_info, node.name,
                                                  <<node.op_type, sh.list>>),
                              op_type_counts |-> counts])

VisitAttrs(attrs, rest, value_info_dict, shapes, st) ==
    IF attrs = <<>> THEN VisitNodes(rest, value_info_dict, shapes, st)
    ELSE IF IsGraphAttr(attrs[1])
    THEN LET sub == VisitNodes(attrs[1].g, value_info_dict, Unbound, st)
         IN  IF sub.status = "raised" THEN sub
             ELSE VisitAttrs(Tail(attrs), rest, value_info_dict, shapes, sub)
    ELSE VisitAttrs(Tail(attrs), rest, value_info_dict, shapes, st)

get_graph_node_info(graph, value_info_dict) ==
    VisitNodes(graph, value_info_dict, Unbound,
               [status |-> "ok", op_info |-> EmptyDict, op_type_counts |-> EmptyDict])

summarize_model(m) ==
    LET r == get_graph_node_info(m.graph.node, ValueInfoDict(m.graph.value_info))
    IN  IF r.status = "raised" THEN [status |-> "raised", exc |-> r.exc]
        ELSE [status         |-> "returned",
              model_size     |-> m.byte_size,
              op_set         |-> get_opset(m.opset_import),
              op_info        |-> r.op_info,
              op_type_counts |-> r.op_type_counts,
              op_input_info  |-> get_shape(m.graph.input),
              op_output_info |-> get_shape(m.graph.output)]

(* Bounded arguments. *)
MaxNodes == 2

SubGraph2 == <<[name |-> "relu", op_type |-> "Relu", output |-> <<"c">>, attribute |-> <<>>]>>

SubGraph1 ==
    <<[name |-> "loop", op_type |-> "Loop", output |-> <<"b">>,
       attribute |-> <<[type |-> "GRAPH", g |-> SubGraph2]>>],
      [name |-> "sub_add", op_type |-> "Add", output |-> <<"a">>, attribute |-> <<>>]>>

NodeTemplates ==
    {[name |-> "add", op_type |-> "Add", output |-> <<"a">>, attribute |-> <<>>],
     [name |-> "split", op_type |-> "Split", output |-> <<"a", "b">>,
      attribute |-> <<[type |-> "INT"]>>],
     [name |-> "sink", op_type |-> "Sink", output |-> <<>>, attribute |-> <<>>],
     [name |-> "if", op_type |-> "If", output |-> <<"c">>,
      attribute |-> <<[type |-> "GRAPHS"], [type |-> "GRAPH", g |-> SubGraph1]>>]}

ValueInfoA == [name |-> "a", elem_type |-> "FLOAT", has_shape |-> TRUE,
               dim |-> <<[has |-> "dim_value", dim_value |-> 1],
                         [has |-> "dim_param", dim_param |-> "N"]>>]
ValueInfoB == [name |-> "b", elem_type |-> "INT64", has_shape |-> TRUE, dim |-> <<>>]
ValueInfoC == [name |-> "c", elem_type |-> "UNDEFINED", has_shape |-> FALSE, dim |-> <<>>]

ValueInfoTables ==
    {<<>>, <<ValueInfoA>>, <<ValueInfoB>>, <<ValueInfoC>>, <<ValueInfoA, ValueInfoB>>,
     <<ValueInfoA, ValueInfoC>>, <<ValueInfoB, ValueInfoC>>,
     <<ValueInfoA, ValueInfoB, ValueInfoC>>}

GraphIO == <<[name |-> "x", elem_type |-> "FLOAT", has_shape |-> TRUE,
              dim |-> <<[has |-> "dim_value", dim_value |-> 1]>>]>>

SummModels ==
    {[byte_size    |-> b,
      opset_import |-> <<[domain |-> "com.microsoft", version |-> 1],
                         [domain |-> "", version |-> 17]>>,
      graph        |-> [node |-> ns, value_info |-> vi,
                        input |-> GraphIO, output |-> <<ValueInfoC>>]] :
        b \in {12, 1000}, ns \in SeqsUpTo(NodeTemplates, MaxNodes), vi \in ValueInfoTables}

SummInit ==
    /\ summ_model \in SummModels
    /\ model_info = Pending

SummarizeModel ==
    /\ model_info = Pending
    /\ model_info' = summarize_model(summ_model)
    /\ UNCHANGED summ_model

(* Claims about summarize_model. *)

\* Every node of the graph and of the subgraphs reachable through
\* graph-typed attributes, in visiting order.
RECURSIVE AllNodes(_)
RECURSIVE AttrNodes(_)
AllNodes(graph) ==
    IF graph = <<>> THEN <<>>
    ELSE <<graph[1]>> \o AttrNodes(graph[1].attribute) \o AllNodes(Tail(graph))
AttrNodes(attrs) ==
    IF attrs = <<>> THEN <<>>
    ELSE (IF attrs[1].type = "GRAPH" THEN AllNodes(attrs[1].g) ELSE <<>>)
         \o AttrNodes(Tail(attrs))

Visited == AllNodes(summ_model.graph.node)

NodesOfType(op) == Cardinality({k \in 1..Len(Visited) : Visited[k].op_type = op})

SummReturned == model_info.status = "returned"

\* C5: the returned op_type_counts has a key for exactly the operator types
\* that occur, each mapped to the number of nodes of that type in the main
\* graph and all nested subgraphs, so the counts sum to the number of visited
\* nodes; a model with zero nodes gives an empty mapping; model_size is the
\* serialized byte size.
C5_OpTypeCounts ==
    SummReturned =>
        LET counts == model_info.op_type_counts
        IN  /\ Range(counts.keys) = {Visited[k].op_type : k \in 1..Len(Visited)}
            /\ \A op \in Range(counts.keys) : counts.val[op] = NodesOfType(op)
            /\ SumSeq([k \in 1..Len(counts.keys) |-> counts.val[counts.keys[k]]])
                  = Len(Visited)
            /\ summ_model.graph.node = <<>> => counts = EmptyDict
            /\ model_info.model_size = summ_model.byte_size

C5_Witness ==
    /\ SummReturned
    /\ Len(summ_model.graph.node) = 2
    /\ Len(Visited) = 5
    /\ model_info.op_type_counts.val["Add"] = 2

\* The recorded (type, shape) pairs the specification promises for a node:
\* one per output present in the value-info table, in output order.
RECURSIVE PromisedOutputs(_, _)
PromisedOutputs(outputs, table) ==
    IF outputs = <<>> THEN <<>>
    ELSE (IF DictHas(table, outputs[1])
          THEN <<get_tensor_dtype_shape(table.val[outputs[1]])>> ELSE <<>>)
         \o PromisedOutputs(Tail(outputs), table)

\* C9: for every visited node, op_info[name] is (op_type, L) with L one
\* (type, shape) pair per output of the node that is in the value-info table,
\* in output order.
C9_OpInfoOutputs ==
    SummReturned =>
        \A k \in 1..Len(Visited) :
            /\ DictHas(model_info.op_info, Visited[k].name)
            /\ model_info.op_info.val[Visited[k].name] =
                  <<Visited[k].op_type,
                    PromisedOutputs(Visited[k].output,
                                    ValueInfoDict(summ_model.graph.value_info))>>

-----------------------------------------------------------------------------
(* dump_model_info_to_disk                                                  *)
(*                                                                          *)
(* csvfs maps each existing CSV file of the working directory to its rows.  *)

\* os.path.splitext(name)[0]: the name up to its last dot, unless that dot
\* only follows leading dots or there is none.
SplitextRoot(name) ==
    LET k == LastIndexOf(name, ".")
    IN  IF k = 0 \/ \A j \in 1..(k - 1) : name[j] = "." THEN name
        ELSE SubSeq(name, 1, k - 1)

\* csv_file_path = f"{filename_without_extension}_model_info.csv"
CsvFilePath(model_name) == SplitextRoot(Basename(model_name)) \o <<"_model_info.csv">>

Header == <<"NodeName", "OpType", "OutputDtype", "OutputShape">>

\* The rows of one op_info entry: the first row carries the node name and
\* operator type and indexes output_info_list[0], which raises IndexError on
\* an empty list; the other rows carry empty strings.
NodeRows(node_name, info) ==
    LET op_type          == info[1]
        output_info_list == info[2]
    IN  IF output_info_list = <<>>
        THEN [status |-> "raised", rows |-> <<>>]
        ELSE [status |-> "ok",
              rows   |-> <<<<node_name, op_type,
                             output_info_list[1][1], output_info_list[1][2]>>>>
                         \o [k \in 1..(Len(output_info_list) - 1) |->
                               <<"", "", output_info_list[k + 1][1],
                                 output_info_list[k + 1][2]>>]]

\* The loop over model_info["op_info"].items(): the rows written before the
\* loop ends or raises.
RECURSIVE DataRows(_, _, _)
DataRows(op_info, names, written) ==
    IF names = <<>> THEN [status |-> "returned", rows |-> written]
    ELSE LET r == NodeRows(names[1], op_info.val[names[1]])
         IN  IF r.status = "raised"
             THEN [status |-> "raised", exc |-> [type |-> "IndexError"], rows |-> written]
             ELSE DataRows(op_info, Tail(names), written \o r.rows)

OpenMode_Truncate(files, path) == <<>>

\* open(csv_file_path, "a"): the content the writes are appended to.
OpenMode(files, path) == IF path \in DOMAIN files THEN files[path] ELSE <<>>

\* csvfile.tell() == 0
NeedsHeader(content) == Len(content) = 0

\* dump_model_info_to_disk: the file after the call (what was written before
\* an exception stays written) and the outcome.
dump_model_info_to_disk(files, model_name, info) ==
    LET csv_file_path == CsvFilePath(model_name)
        content       == OpenMode(files, csv_file_path)
        head          == IF NeedsHeader(content) THEN <<Header>> ELSE <<>>
        r             == DataRows(info.op_info, info.op_info.keys, <<>>)
    IN  [status |-> r.status,
         files  |-> [q \in DOMAIN files \cup {csv_file_path} |->
                        IF q = csv_file_path THEN content \o head \o r.rows
                        ELSE files[q]]]

(* Bounded arguments. *)
MaxDumpCalls == 2

ModelNames == {<< <<"m", ".", "o">> >>,
               << <<"o", "u", "t">>, <<"m", ".", "o">> >>,
               << <<"k", ".", "v", "2", ".", "o">> >>}

CsvPaths == {CsvFilePath(n) : n \in ModelNames}

\* A row left in the file by something else.
ForeignRow == <<"x", "y", "z", "w">>

CsvNodeLists ==
    {ns \in SeqsUpTo(NodeTemplates, 2) :
        /\ \A k \in 1..Len(ns) : ns[k].name # "sink"
        /\ Len(ns) = 2 => ns[1].name = "add"}

CsvModels ==
    {m \in SummModels : /\ m.byte_size = 12
                        /\ m.graph.node \in CsvNodeLists
                        /\ Len(m.graph.value_info) \in {0, 3}}

CsvInit ==
    /\ \E present \in SUBSET CsvPaths :
       \E filled \in SUBSET present :
          csvfs = [q \in present |-> IF q \in filled THEN <<ForeignRow>> ELSE <<>>]
    /\ dump_call = Pending
    /\ ncalls = 0
    /\ summ_model \in CsvModels
    /\ model_info = Pending

DumpModelInfoToDisk ==
    /\ ncalls < MaxDumpCalls
    /\ model_info.status = "returned"
    /\ \E model_name \in ModelNames :
          LET r == dump_model_info_to_disk(csvfs, model_name, model_info)
          IN  /\ csvfs' = r.files
              /\ dump_call' = [status |-> r.status, model_name |-> model_name,
                               before |-> csvfs, op_info |-> model_info.op_info]
    /\ ncalls' = ncalls + 1
    /\ UNCHANGED <<summ_model, model_info>>

\* The caller moves on to another model.
LoadModel ==
    /\ model_info.status # "pending"
    /\ ncalls < MaxDumpCalls
    /\ summ_model' \in CsvModels
    /\ model_info' = Pending
    /\ UNCHANGED <<csvfs, dump_call, ncalls>>

(* Claims about dump_model_info_to_disk. *)

ContentOf(files, path) == IF path \in DOMAIN files THEN files[path] ELSE <<>>

HeaderRows(content) == {k \in 1..Len(content) : content[k] = Header}

\* C7, on the file a call targets: the content before the call is a prefix
\* of the content after it, and the call writes the header row right after
\* the old content exactly when the old content is empty.
C7_CallAppends ==
    \A path \in CsvPaths :
        LET old == ContentOf(csvfs, path)
            new == ContentOf(csvfs', path)
        IN  /\ path \in DOMAIN csvfs => path \in DOMAIN csvfs'
            /\ IsPrefix(old, new)
            /\ (ncalls' # ncalls /\ path = CsvFilePath(dump_call'.model_name)) =>
                  /\ path \in DOMAIN csvfs'
                  /\ old = <<>> => (new # <<>> /\ new[1] = Header)
                  /\ HeaderRows(new) \ HeaderRows(old)
                        = IF old = <<>> THEN {1} ELSE {}

\* C7, on every file: a file that did not start with foreign content and has
\* been written holds exactly one header row, its first row.
C7_OneHeader ==
    \A path \in DOMAIN csvfs :
        (csvfs[path] # <<>> /\ csvfs[path][1] # ForeignRow) =>
            HeaderRows(csvfs[path]) = {1}

\* C7: dump_model_info_to_disk never truncates, writes the header if and
\* only if the file is empty when opened, and a file that started empty or
\* absent holds exactly one header row, as its first row.
C7_HeaderOnceAppendOnly == [][C7_CallAppends]_vars /\ []C7_OneHeader

C7_Witness ==
    /\ ncalls = 2
    /\ LET path == CsvFilePath(dump_call.model_name)
       IN  /\ path \in DOMAIN dump_call.before
           /\ Len(dump_call.before[path]) >= 2
           /\ dump_call.before[path][1] = Header
           /\ Len(csvfs[path]) > Len(dump_call.before[path])
           /\ HeaderRows(csvfs[path]) = {1}

\* The rows the specification promises for a summary: per node entry one
\* row per recorded output, the first with the node name and operator type,
\* the later ones with empty name and type; none for an entry without
\* recorded outputs.
RECURSIVE PromisedRows(_, _)
PromisedRows(op_info, names) ==
    IF names = <<>> THEN <<>>
    ELSE LET info == op_info.val[names[1]]
         IN  [k \in 1..Len(info[2]) |->
                 <<IF k = 1 THEN names[1] ELSE "", IF k = 1 THEN info[1] ELSE "",
                   info[2][k][1], info[2][k][2]>>]
             \o PromisedRows(op_info, Tail(names))

\* C8: every call on a summary produced by summarize_model completes
\* normally and appends, after a possible header, exactly the promised rows.
C8_RowsPerOutput ==
    dump_call.status # "pending" =>
        LET path == CsvFilePath(dump_call.model_name)
            old  == ContentOf(dump_call.before, path)
            head == IF old = <<>> THEN <<Header>> ELSE <<>>
        IN  /\ dump_call.status = "returned"
            /\ csvfs[path] = old \o head
                               \o PromisedRows(dump_call.op_info, dump_call.op_info.keys)

-----------------------------------------------------------------------------
(* check_point and is_converged                                             *)

\* gs.import_onnx: the graph of the model as a value; what the model carries
\* outside its graph (here the doc string) is not part of it.
import_onnx(m) == [nodes |-> m.graph.node, inputs |-> m.graph.input,
                   outputs |-> m.graph.output]

check_point(m) == import_onnx(m)

PyFalse == [t |-> "bool", b |-> FALSE]

Truthy(v) == v.t = "bool" /\ v.b

\* is_converged: the value returned and the final binding of the parameter
\* graph_ckpt inside the call.
is_converged(m, ckpt, it) ==
    LET graph == import_onnx(m)
    IN  IF graph = ckpt
        THEN [ret |-> PyNone, graph |-> graph, graph_ckpt |-> ckpt]
        ELSE [ret |-> PyFalse, graph |-> graph, graph_ckpt |-> graph]

CallerBinding_Threaded(caller_ckpt, call) == call.graph_ckpt

\* The caller's checkpoint after the call: graph_ckpt = graph rebinds the
\* parameter only, and the rebound value is not returned.
CallerBinding(caller_ckpt, call) == caller_ckpt

(* Bounded arguments. *)
MaxOptNodes == 2
MaxIter == 3

OptModels ==
    {[doc_string |-> d,
      graph |-> [node |-> ns, input |-> <<"x">>, output |-> <<"y">>]] :
        d \in {"", "slimmed"}, ns \in SeqsUpTo({"Add", "Relu"}, MaxOptNodes)}

ConvInit ==
    /\ opt_model \in OptModels
    /\ graph_ckpt = check_point(opt_model)
    /\ conv_call = Pending
    /\ iter = 0

\* The caller takes a new checkpoint of the model it holds.
CheckPoint ==
    /\ graph_ckpt # check_point(opt_model)
    /\ graph_ckpt' = check_point(opt_model)
    /\ UNCHANGED <<opt_model, conv_call, iter>>

\* An optimisation pass hands back a model.
Optimize ==
    /\ iter < MaxIter
    /\ opt_model' \in OptModels \ {opt_model}
    /\ UNCHANGED <<graph_ckpt, conv_call, iter>>

IsConverged ==
    /\ iter < MaxIter
    /\ LET r == is_converged(opt_model, graph_ckpt, iter)
       IN  /\ conv_call' = [status |-> "returned", ret |-> r.ret, graph |-> r.graph,
                            prev_graph |-> IF conv_call = Pending THEN <<>>
                                           ELSE conv_call.graph]
           /\ graph_ckpt' = CallerBinding(graph_ckpt, r)
    /\ iter' = iter + 1
    /\ UNCHANGED opt_model

(* Claims about is_converged. *)

\* C10, on a call: the value returned is None when the imported graph equals
\* the caller's checkpoint and False otherwise, never a truthy value, and
\* the caller's checkpoint is the same after the call.
C10_Call ==
    iter' # iter =>
        /\ conv_call'.ret \in {PyNone, PyFalse}
        /\ ~Truthy(conv_call'.ret)
        /\ conv_call'.ret = PyNone <=> import_onnx(opt_model) = graph_ckpt
        /\ graph_ckpt' = graph_ckpt

\* C10: is_converged returns None on equality with the checkpoint and False
\* otherwise and leaves the caller's checkpoint unchanged, so every call
\* compares against the caller's checkpoint, not the previous call's graph.
C10_CheckpointUnchanged == [][C10_Call]_vars

\* A second call sees the graph the first call saw, which differs from the
\* checkpoint, and still answers False.
C10_Witness ==
    /\ iter >= 2
    /\ conv_call.ret = PyFalse
    /\ conv_call.prev_graph = conv_call.graph
    /\ conv_call.graph # graph_ckpt

-----------------------------------------------------------------------------
(* Specifications.  Each one exercises one group of utilities; the          *)
(* variables of the other groups stay at their idle values.                 *)

GenOff == graph_input = <<>> /\ model_check_inputs = <<>> /\ input_data_dict = Pending
CheckOff ==
    /\ raw_onnx_output = EmptyDict /\ slimmed_onnx_output = EmptyDict
    /\ warnings = <<>> /\ compared = <<>> /\ check_status = "pending"
FsOff ==
    /\ fs = <<>> /\ model = <<>> /\ save_call = Pending /\ infer_call = Pending
    /\ fs_calls = 0
SummOff == summ_model = <<>> /\ model_info = Pending
CsvOff == csvfs = <<>> /\ dump_call = Pending /\ ncalls = 0
ConvOff == opt_model = <<>> /\ graph_ckpt = <<>> /\ conv_call = Pending /\ iter = 0

InitGen == GenInit /\ CheckOff /\ FsOff /\ SummOff /\ CsvOff /\ ConvOff
NextGen == GenOnnxruntimeInputData
              /\ UNCHANGED <<checkVars, fsVars, summVars, csvVars, convVars>>
SpecGen == InitGen /\ [][NextGen]_vars

InitCheck == CheckInit /\ GenOff /\ FsOff /\ SummOff /\ CsvOff /\ ConvOff
NextCheck == CheckResult
                /\ UNCHANGED <<genVars, fsVars, summVars, csvVars, convVars>>
SpecCheck == InitCheck /\ [][NextCheck]_vars

InitFs == FsInit /\ GenOff /\ CheckOff /\ SummOff /\ CsvOff /\ ConvOff
NextFs ==
    \/ Save /\ UNCHANGED <<genVars, checkVars, summVars, csvVars, convVars>>
    \/ OnnxruntimeInference /\ UNCHANGED <<genVars, checkVars, summVars, csvVars, convVars>>
SpecFs == InitFs /\ [][NextFs]_vars

InitSumm == SummInit /\ GenOff /\ CheckOff /\ FsOff /\ CsvOff /\ ConvOff
NextSumm == SummarizeModel
               /\ UNCHANGED <<genVars, checkVars, fsVars, csvVars, convVars>>
SpecSumm == InitSumm /\ [][NextSumm]_vars

InitCsv == CsvInit /\ GenOff /\ CheckOff /\ FsOff /\ ConvOff
NextCsv ==
    \/ SummarizeModel /\ UNCHANGED <<genVars, checkVars, fsVars, csvVars, convVars>>
    \/ DumpModelInfoToDisk /\ UNCHANGED <<genVars, checkVars, fsVars, convVars>>
    \/ LoadModel /\ UNCHANGED <<genVars, checkVars, fsVars, convVars>>
SpecCsv == InitCsv /\ [][NextCsv]_vars

InitConv == ConvInit /\ GenOff /\ CheckOff /\ FsOff /\ SummOff /\ CsvOff
NextConv ==
    \/ CheckPoint /\ UNCHANGED <<genVars, checkVars, fsVars, summVars, csvVars>>
    \/ Optimize /\ UNCHANGED <<genVars, checkVars, fsVars, summVars, csvVars>>
    \/ IsConverged /\ UNCHANGED <<genVars, checkVars, fsVars, summVars, csvVars>>
SpecConv == InitConv /\ [][NextConv]_vars

=============================================================================
